---- MODULE Spec2Model ----
(***************************************************************************)
(* Model of django-popularity, popularity/models.py.                       *)
(*                                                                         *)
(*  - ViewTracker rows live in `table` (the popularity_viewtracker table); *)
(*    every caller p owns one local variable `viewtracker` (inst[p]), the  *)
(*    in-memory copy of a row that Django hands out.                       *)
(*  - ViewTracker.add_view_for / ViewTrackerQuerySet.get_for_object /      *)
(*    ViewTracker.increment / ViewTracker.get_views_for are split at their *)
(*    database round trips, so that callers interleave between them.       *)
(*  - The ViewTrackerQuerySet.select_* methods act on one chained          *)
(*    collection `coll`; the SQL fragments they build are kept as          *)
(*    expression records and evaluated row by row.                         *)
(*                                                                         *)
(* Time is an integer clock `now` that never goes backwards                *)
(* (datetime.now() / NOW()).                                               *)
(***************************************************************************)
EXTENDS Integers, FiniteSets, Sequences, TLC

VARIABLES
    table,      \* set of stored ViewTracker rows
    nextId,     \* next AUTO_INCREMENT primary key
    now,        \* the clock
    pc,         \* pc[p]: where caller p stands
    inst,       \* inst[p]: caller p's in-memory ViewTracker instance
    ret,        \* what the most recent completed call returned or raised
    done,       \* done[o]: how many increment() calls on o have completed
    engine,     \* settings.DATABASE_ENGINE
    coll,       \* the ViewTrackerQuerySet being chained
    last        \* the most recent select_* call and how it ended

vars == <<table, nextId, now, pc, inst, ret, done, engine, coll, last>>

trackerVars == <<table, nextId, now, pc, inst, ret, done>>
queryVars   == <<engine, coll, last>>

----------------------------------------------------------------------------
(* Bounds *)

MaxIncrements == 2
MaxClock      == 1

\* Two callers and two content objects, (article, 1) and (photo, 1): rows
\* of different objects never meet, and a lost update takes two callers.
Callers      == {1, 2}
ContentTypes == {"article", "photo"}
ObjectIds    == {1}

\* A content object is identified by (content type, primary key).
Objects == [content_type : ContentTypes, object_id : ObjectIds]

Min(a, b) == IF a <= b THEN a ELSE b

----------------------------------------------------------------------------
(* ViewTracker rows and instances *)

\* A stored row has the columns id, content_type, object_id, first_view,
\* last_view, views. An in-memory instance carries the same fields except
\* last_view: save() overwrites that attribute (auto_now) before anything
\* reads it.

\* "no instance": the caller's variable holds nothing.
NoInst ==
    [id |-> 0, content_type |-> "", object_id |-> 0, first_view |-> 0, views |-> 0]

ObjOf(r) == [content_type |-> r.content_type, object_id |-> r.object_id]

\* the instance Django builds from a fetched row
Loaded(r) ==
    [id |-> r.id, content_type |-> r.content_type, object_id |-> r.object_id,
     first_view |-> r.first_view, views |-> r.views]

\* self.filter(content_type=ct, object_id=pk) over the table
MatchingByIdOnly(tbl, o) == {r \in tbl : r.object_id = o.object_id}

Matching(tbl, o) ==
    {r \in tbl : r.content_type = o.content_type /\ r.object_id = o.object_id}

\* self.get(content_type=ct, object_id=pk), when a row matches
Get(tbl, o) == CHOOSE r \in Matching(tbl, o) : TRUE

\* the views stored for o, 0 when no row
StoredViews(tbl, o) == IF Matching(tbl, o) = {} THEN 0 ELSE Get(tbl, o).views

\* Meta.unique_together = ('content_type', 'object_id'): the UNIQUE index the
\* table is created with refuses an INSERT of a second row for the pair.
NotUnique(tbl, o) == TRUE

UniqueTogether(tbl, o) == Matching(tbl, o) = {}

\* DateTimeField.pre_save for first_view (auto_now_add) and last_view
\* (auto_now), giving the row that is written. `add` is TRUE on INSERT;
\* t1, t2 are the two datetime.now() readings, in field order.
PreSaveAutoNowFirst(i, add, t1, t2) ==
    [id |-> i.id, content_type |-> i.content_type, object_id |-> i.object_id,
     first_view |-> t1,
     last_view  |-> t2,
     views |-> i.views]

PreSaveLastFirst(i, add, t1, t2) ==
    [id |-> i.id, content_type |-> i.content_type, object_id |-> i.object_id,
     first_view |-> IF add THEN t2 ELSE i.first_view,
     last_view  |-> t1,
     views |-> i.views]

PreSave(i, add, t1, t2) ==
    [id |-> i.id, content_type |-> i.content_type, object_id |-> i.object_id,
     first_view |-> IF add THEN t1 ELSE i.first_view,
     last_view  |-> t2,
     views |-> i.views]

\* Model.save() of an instance whose primary key is stored: UPDATE of every
\* column of that row from the instance.
SaveUpdate(tbl, r) == {x \in tbl : x.id # r.id} \cup {r}

\* self.views = self.views + 1, computed on the in-memory instance
IncrementedInStore(tbl, i) == [i EXCEPT !.views = StoredViews(tbl, ObjOf(i)) + 1]

IncrementedTwice(tbl, i) == [i EXCEPT !.views = i.views + 2]

Incremented(tbl, i) == [i EXCEPT !.views = i.views + 1]

----------------------------------------------------------------------------
(* Initial state shared by all specifications *)

Engines == {"mysql", "sqlite3"}

\* settings.DATABASE_ENGINE == 'mysql'
IsMySQL == engine = "mysql"

\* `last` when no select_* call has been made yet
NoCall == [op |-> "none", exc |-> "none", queries |-> 0]

\* ViewTrackerManager.get_query_set(): all rows, no extra column
BaseQuerySet == [cts |-> ContentTypes, extra |-> <<>>]

\* A call's outcome: the number get_views_for returned, the instance
\* get_for_object / add_view_for returned (kept in inst[p]), the None of
\* increment(), or the exception raised.
Returned(n)      == [kind |-> "int", exc |-> "none", value |-> n]
ReturnedInstance == [kind |-> "instance", exc |-> "none", value |-> 0]
ReturnedNone     == [kind |-> "None", exc |-> "none", value |-> 0]
Raised(e)        == [kind |-> "raise", exc |-> e, value |-> 0]

TrackerInit ==
    /\ table = {}
    /\ nextId = 1
    /\ now = 0
    /\ pc = [p \in Callers |-> "idle"]
    /\ inst = [p \in Callers |-> NoInst]
    /\ ret = ReturnedNone
    /\ done = [o \in Objects |-> 0]

QueryInit ==
    /\ engine \in Engines
    /\ coll = BaseQuerySet
    /\ last = NoCall

Init == TrackerInit /\ QueryInit

\* None of the tracker operations reads the engine: the specifications of
\* the tracker alone start on MySQL.
InitMySQL == TrackerInit /\ QueryInit /\ engine = "mysql"

----------------------------------------------------------------------------
(* Tracker operations *)

\* The clock advances.
Tick ==
    /\ now < MaxClock
    /\ now' = now + 1
    /\ UNCHANGED <<table, nextId, pc, inst, ret, done>>
    /\ UNCHANGED queryVars

\* Where a caller goes once get_for_object has an instance: on to increment()
\* inside add_view_for, back to the caller otherwise.
AfterResolve(method) == IF method = "add_view_for" THEN "increment" ELSE "idle"

\* First round trip of get_for_object: self.get(...) when create is false,
\* and the initial self.get(...) inside get_or_create when it is true.
\* `method` is the public method the caller entered through.
Lookup(p, o, create, method) ==
    /\ pc[p] = "idle"
    /\ IF Matching(table, o) # {}
       THEN /\ inst' = [inst EXCEPT ![p] = Loaded(Get(table, o))]
            /\ pc'   = [pc EXCEPT ![p] = AfterResolve(method)]
            /\ ret'  = IF method = "add_view_for" THEN ret ELSE ReturnedInstance
       ELSE IF create
       THEN /\ inst' = [inst EXCEPT ![p] =
                          [NoInst EXCEPT !.content_type = o.content_type,
                                         !.object_id = o.object_id]]
            /\ pc'   = [pc EXCEPT ![p] =
                          IF method = "add_view_for" THEN "create_avf" ELSE "create"]
            /\ ret'  = ret
       ELSE /\ inst' = [inst EXCEPT ![p] = NoInst]
            /\ pc'   = [pc EXCEPT ![p] = "idle"]
            /\ ret'  = Raised("DoesNotExist")
    /\ UNCHANGED <<table, nextId, now, done>>
    /\ UNCHANGED queryVars

\* ViewTrackerQuerySet.get_for_object(content_object, create)
GetForObject(p, o, create) == Lookup(p, o, create, "get_for_object")

\* ViewTracker.add_view_for(content_object), up to its first round trip
AddViewFor(p, o) == Lookup(p, o, TRUE, "add_view_for")

\* Second round trip of get_or_create: INSERT of a fresh row (views default
\* 0, both timestamps stamped); when the UNIQUE index refuses it
\* (IntegrityError) the existing row is fetched instead.
GetOrCreateInsert(p) ==
    /\ pc[p] \in {"create", "create_avf"}
    /\ LET o == ObjOf(inst[p]) IN
       IF UniqueTogether(table, o)
       THEN \E t2 \in now..Min(now + 1, MaxClock) :
              LET r == PreSave([inst[p] EXCEPT !.id = nextId], TRUE, now, t2) IN
              /\ table' = table \cup {r}
              /\ nextId' = nextId + 1
              /\ now' = t2
              /\ inst' = [inst EXCEPT ![p] = Loaded(r)]
       ELSE /\ inst' = [inst EXCEPT ![p] = Loaded(Get(table, o))]
            /\ UNCHANGED <<table, nextId, now>>
    /\ pc' = [pc EXCEPT ![p] =
                AfterResolve(IF pc[p] = "create_avf" THEN "add_view_for"
                                                     ELSE "get_for_object")]
    /\ ret' = IF pc[p] = "create_avf" THEN ret ELSE ReturnedInstance
    /\ UNCHANGED done
    /\ UNCHANGED queryVars

\* ViewTracker.increment(): on the instance add_view_for just resolved, or on
\* an instance the caller kept from an earlier call.
Increment(p) ==
    /\ \/ pc[p] = "increment"
       \/ pc[p] = "idle" /\ inst[p] # NoInst
    /\ done[ObjOf(inst[p])] < MaxIncrements
    /\ LET r == PreSave(Incremented(table, inst[p]), FALSE, now, now) IN
       /\ table' = SaveUpdate(table, r)
       /\ inst' = [inst EXCEPT ![p] = Loaded(r)]
    /\ pc' = [pc EXCEPT ![p] = "idle"]
    /\ ret' = IF pc[p] = "increment" THEN ReturnedInstance ELSE ReturnedNone
    /\ done' = [done EXCEPT ![ObjOf(inst[p])] = @ + 1]
    /\ UNCHANGED <<nextId, now>>
    /\ UNCHANGED queryVars

\* The `create` argument get_views_for passes to get_for_object (the default).
GetViewsForCreatesRow == TRUE

GetViewsForCreate == FALSE

\* ViewTracker.get_views_for(content_object)
GetViewsFor(p, o) ==
    /\ pc[p] = "idle"
    /\ IF Matching(table, o) # {}
       THEN /\ ret' = Returned(Get(table, o).views)
            /\ UNCHANGED <<table, nextId>>
       ELSE IF GetViewsForCreate
       THEN /\ table' = table \cup
                   {PreSave([NoInst EXCEPT !.id = nextId,
                                           !.content_type = o.content_type,
                                           !.object_id = o.object_id],
                            TRUE, now, now)}
            /\ nextId' = nextId + 1
            /\ ret' = Returned(0)
       ELSE /\ ret' = Returned(0)
            /\ UNCHANGED <<table, nextId>>
    /\ UNCHANGED <<now, pc, inst, done>>
    /\ UNCHANGED queryVars

CallerStep(p) ==
    \/ \E o \in Objects : AddViewFor(p, o)
    \/ \E o \in Objects, create \in BOOLEAN : GetForObject(p, o, create)
    \/ GetOrCreateInsert(p)
    \/ Increment(p)
    \/ \E o \in Objects : GetViewsFor(p, o)

\* Callers interleave at every round trip.
Next == Tick \/ \E p \in Callers : CallerStep(p)

Spec == InitMySQL /\ [][Next]_vars

\* No interleaving: one thread of control, whose local variables are the
\* inst[p]; a call that has begun runs to its end before the next begins.
Alone(p) == \A q \in Callers \ {p} : pc[q] = "idle"

NextSeq ==
    \/ Tick
    \/ \E p \in Callers, o \in Objects : Alone(p) /\ AddViewFor(p, o)
    \/ \E p \in Callers, o \in Objects, create \in BOOLEAN :
          Alone(p) /\ GetForObject(p, o, create)
    \/ \E p \in Callers : Alone(p) /\ GetOrCreateInsert(p)
    \/ \E p \in Callers : Alone(p) /\ Increment(p)
    \/ \E p \in Callers, o \in Objects : Alone(p) /\ GetViewsFor(p, o)

SpecSeq == InitMySQL /\ [][NextSeq]_vars

----------------------------------------------------------------------------
(* SQL values: exact rationals <<n, d>> with d > 0, and NULL *)

Null == <<0, 0>>
Zero == <<0, 1>>
One  == <<1, 1>>

IsNull(x) == x[2] = 0

RECURSIVE GCD(_, _)
GCD(a, b) == IF b = 0 THEN a ELSE GCD(b, a % b)

Norm(n, d) == LET g == GCD(n, d) IN <<n \div g, d \div g>>

Rat(n) == <<n, 1>>

\* MySQL's x / y: NULL when an operand is NULL or the divisor is 0
Div(x, y) ==
    IF IsNull(x) \/ IsNull(y) \/ y[1] = 0 THEN Null
    ELSE Norm(x[1] * y[2], x[2] * y[1])

Leq(x, y) == x[1] * y[2] <= y[1] * x[2]

\* MySQL's MAX(...): NULLs are skipped, NULL when nothing is left
SqlMax(S) ==
    LET V == {x \in S : ~IsNull(x)} IN
    IF V = {} THEN Null ELSE CHOOSE x \in V : \A y \in V : Leq(y, x)

----------------------------------------------------------------------------
(* ViewTrackerQuerySet: the computed columns *)

\* the rows a query set selects (get_for_models filters on content type)
Rows(c) == {r \in table : r.content_type \in c.cts}

\* An extra column's SQL, with the values interpolated into it.
Expr(fn, p1, p2) == [fn |-> fn, p1 |-> p1, p2 |-> p2]

\* self._SQL_AGE: (NOW() - first_view)
SQL_AGE == Expr("age", Zero, Zero)

\* self._SQL_RELVIEWS % {'maxviews': maxviews}: (views/<maxviews>)
SQL_RELVIEWS(maxviews) == Expr("relviews", maxviews, Zero)

\* self._SQL_RELAGE % {'age': ..., 'maxage': maxage}: (<age>/<maxage>)
SQL_RELAGE(maxage) == Expr("relage", maxage, Zero)

\* self._SQL_NOVELTY % {...}:
\* (<factor> * EXP(<logscaling> * <age>/<charage>) + <offset>)
SQL_NOVELTY(factor, offset) == Expr("novelty", factor, offset)

\* self._SQL_POPULARITY % {'age': self._SQL_AGE}: (views/<age>)
SQL_POPULARITY == Expr("popularity", Zero, Zero)

\* self._SQL_RELPOPULARITY % {...}: (<popularity>/<maxpopularity>)
SQL_RELPOPULARITY(maxpopularity) == Expr("relpopularity", maxpopularity, Zero)

\* What MySQL computes for an extra column of row r at time t. (novelty's
\* EXP is not rational and is left unevaluated.)
Eval(e, r, t) ==
    CASE e.fn = "age"           -> Rat(t - r.first_view)
      [] e.fn = "relviews"      -> Div(Rat(r.views), e.p1)
      [] e.fn = "relage"        -> Div(Rat(t - r.first_view), e.p1)
      [] e.fn = "popularity"    -> Div(Rat(r.views), Rat(t - r.first_view))
      [] e.fn = "relpopularity" ->
            Div(Div(Rat(r.views), Rat(t - r.first_view)), e.p1)

\* QuerySet._add_extra(field, sql): a clone with the column added
AddExtra(c, field, sql) ==
    [c EXCEPT !.extra =
        [f \in DOMAIN c.extra \cup {field} |->
            IF f = field THEN sql ELSE c.extra[f]]]

\* The relative_to argument: None, another ViewTrackerQuerySet, or an object
\* of some other class.
NoRelativeTo == [kind |-> "None", cts |-> {}]

RelativeTos ==
    {NoRelativeTo, [kind |-> "other", cts |-> {}]}
      \cup {[kind |-> "queryset", cts |-> s] : s \in SUBSET ContentTypes \ {{}}}

\* `if not relative_to: relative_to = self`: None and a query set without
\* rows are both false
Reference(c, rel) ==
    IF rel.kind = "None" \/ (rel.kind = "queryset" /\ Rows(rel) = {}) THEN c
    ELSE rel

\* relative_to.__class__ == self.__class__
SameClass(c, rel) == Reference(c, rel) = c \/ Reference(c, rel).kind = "queryset"

\* MAX(views), MAX((NOW() - first_view)), MAX((views/(NOW() - first_view)))
\* over the reference set
MaxViews(ref) == SqlMax({Rat(r.views) : r \in Rows(ref)})
MaxAge(ref) == SqlMax({Rat(now - r.first_view) : r \in Rows(ref)})
MaxPopularity(ref) == SqlMax({Eval(SQL_POPULARITY, r, now) : r \in Rows(ref)})

ASSERT_MYSQL == "AssertionError: This only works for MySQL."
ASSERT_CLASS == "AssertionError: relative_to should be of type"

\* How a select_* call ends: the query set it returns becomes the one being
\* chained; an exception leaves the query set it was called on.
Return(op, c, queries) ==
    /\ coll' = c
    /\ last' = [op |-> op, exc |-> "none", queries |-> queries]

Raise(op, e, queries) ==
    /\ coll' = coll
    /\ last' = [op |-> op, exc |-> e, queries |-> queries]

\* the extra columns one chain may collect in the model
MaxColumns == 2

CanSelect ==
    /\ pc = [p \in Callers |-> "idle"]
    /\ Cardinality(DOMAIN coll.extra) < MaxColumns
    /\ UNCHANGED trackerVars
    /\ UNCHANGED engine

\* ViewTrackerManager.get_for_models(models): a fresh query set, filtered
GetForModels(cts) ==
    /\ pc = [p \in Callers |-> "idle"]
    /\ coll' = [BaseQuerySet EXCEPT !.cts = cts]
    /\ last' = NoCall
    /\ UNCHANGED trackerVars
    /\ UNCHANGED engine

SelectAge ==
    /\ CanSelect
    /\ IF ~IsMySQL THEN Raise("select_age", ASSERT_MYSQL, 0)
       ELSE Return("select_age", AddExtra(coll, "age", SQL_AGE), 0)

SelectRelviews(rel) ==
    /\ CanSelect
    /\ IF ~IsMySQL THEN Raise("select_relviews", ASSERT_MYSQL, 0)
       ELSE IF ~SameClass(coll, rel) THEN Raise("select_relviews", ASSERT_CLASS, 0)
       ELSE LET maxviews == MaxViews(Reference(coll, rel)) IN
            IF IsNull(maxviews) THEN Raise("select_relviews", "TypeError", 1)
            ELSE Return("select_relviews",
                        AddExtra(coll, "relviews", SQL_RELVIEWS(maxviews)), 1)

SelectRelage(rel) ==
    /\ CanSelect
    /\ IF ~IsMySQL THEN Raise("select_relage", ASSERT_MYSQL, 0)
       ELSE IF ~SameClass(coll, rel) THEN Raise("select_relage", ASSERT_CLASS, 0)
       ELSE LET maxage == MaxAge(Reference(coll, rel)) IN
            IF IsNull(maxage) THEN Raise("select_relage", "TypeError", 1)
            ELSE Return("select_relage",
                        AddExtra(coll, "relage", SQL_RELAGE(maxage)), 1)

\* the values of `minimum` tried: 0.0, 0.5, 1.0
Minimums == {Zero, <<1, 2>>, One}

SelectNovelty(minimum) ==
    /\ CanSelect
    /\ IF ~IsMySQL THEN Raise("select_novelty", ASSERT_MYSQL, 0)
       ELSE IF minimum = One THEN Raise("select_novelty", "ZeroDivisionError", 0)
       ELSE LET offset == minimum
                factor == Div(One, <<minimum[2] - minimum[1], minimum[2]>>)
            IN  Return("select_novelty",
                       AddExtra(AddExtra(coll, "age", SQL_AGE),
                                "novelty", SQL_NOVELTY(factor, offset)), 0)

SelectPopularity ==
    /\ CanSelect
    /\ IF ~IsMySQL THEN Raise("select_popularity", ASSERT_MYSQL, 0)
       ELSE Return("select_popularity",
                   AddExtra(AddExtra(coll, "age", SQL_AGE),
                            "popularity", SQL_POPULARITY), 0)

\* The SQL select_relpopularity stores under 'relpopularity': SQL_POPULARITY
\* (SQL_RELPOPULARITY is built from maxpopularity and dropped).
RelpopularityColumn(maxpopularity) == SQL_POPULARITY

SelectRelpopularity(rel) ==
    /\ CanSelect
    /\ IF ~IsMySQL THEN Raise("select_relpopularity", ASSERT_MYSQL, 0)
       ELSE IF ~SameClass(coll, rel)
       THEN Raise("select_relpopularity", ASSERT_CLASS, 0)
       ELSE LET maxpopularity == MaxPopularity(Reference(coll, rel)) IN
            Return("select_relpopularity",
                   AddExtra(AddExtra(AddExtra(coll, "age", SQL_AGE),
                                     "popularity", SQL_POPULARITY),
                            "relpopularity", RelpopularityColumn(maxpopularity)), 1)

\* select_random reads self.RANDOM; __init__ sets self._SQL_RANDOM only.
SelectRandom ==
    /\ CanSelect
    /\ IF ~IsMySQL THEN Raise("select_random", ASSERT_MYSQL, 0)
       ELSE Raise("select_random", "AttributeError", 0)

\* select_ordering is declared without `self`: the query set it is called
\* on is bound to `relview`. A call that also passes relview by keyword is
\* refused before the body runs (TypeError: multiple values for 'relview');
\* otherwise the body runs up to its first use of the name `self`.
SelectOrdering(relview_by_keyword, rel) ==
    /\ CanSelect
    /\ IF relview_by_keyword THEN Raise("select_ordering", "TypeError", 0)
       ELSE IF ~IsMySQL THEN Raise("select_ordering", ASSERT_MYSQL, 0)
       ELSE Raise("select_ordering", "NameError", 0)

NextQuery ==
    \/ Tick
    \/ \E o \in Objects : AddViewFor(1, o)
    \/ GetOrCreateInsert(1)
    \/ Increment(1)
    \/ \E cts \in SUBSET ContentTypes : GetForModels(cts)
    \/ SelectAge
    \/ \E rel \in RelativeTos : SelectRelviews(rel)
    \/ \E rel \in RelativeTos : SelectRelage(rel)
    \/ \E minimum \in Minimums : SelectNovelty(minimum)
    \/ SelectPopularity
    \/ \E rel \in RelativeTos : SelectRelpopularity(rel)
    \/ SelectRandom
    \/ \E kw \in BOOLEAN, rel \in RelativeTos : SelectOrdering(kw, rel)

SpecQuery == Init /\ [][NextQuery]_vars

----------------------------------------------------------------------------
(* Properties of the tracker *)

AllIdle == \A p \in Callers : pc[p] = "idle"

RowsOf(tbl, o) ==
    {r \in tbl : r.content_type = o.content_type /\ r.object_id = o.object_id}

ViewsOf(tbl, o) ==
    IF RowsOf(tbl, o) = {} THEN 0 ELSE (CHOOSE r \in RowsOf(tbl, o) : TRUE).views

LastViewOf(tbl, o) ==
    IF RowsOf(tbl, o) = {} THEN 0 ELSE (CHOOSE r \in RowsOf(tbl, o) : TRUE).last_view

\* the in-memory instance agrees with the stored row on views
Fresh(p) == inst[p].views = ViewsOf(table, ObjOf(inst[p]))

\* C1 as stated: without interleaving, every completed increment call on an
\* object raises its stored views by exactly 1 (so N calls raise it by N)
\* and does not lower its last_view.
C1_EveryIncrementAddsOne ==
    [][\A o \in Objects :
          done'[o] = done[o] + 1 =>
             /\ ViewsOf(table', o) = ViewsOf(table, o) + 1
             /\ LastViewOf(table', o) >= LastViewOf(table, o)]_vars

\* C1 amended: without interleaving, every increment made by add_view_for,
\* and every increment() on an instance whose views equals the stored views,
\* raises the stored views by exactly 1; every increment leaves last_view
\* no lower than it was.
C1_FreshIncrementAddsOne ==
    [][\A p \in Callers :
          Increment(p) =>
             LET o == ObjOf(inst[p]) IN
             /\ (pc[p] = "increment" \/ Fresh(p)) =>
                    ViewsOf(table', o) = ViewsOf(table, o) + 1
             /\ LastViewOf(table', o) >= LastViewOf(table, o)]_vars

C1_Witness ==
    \E o \in Objects :
       /\ AllIdle
       /\ done[o] = 2
       /\ ViewsOf(table, o) = 2
       /\ LastViewOf(table, o) > 0

\* C2: the value increment() writes is the views its caller read plus one,
\* whatever is stored by then; two callers that read the same views both
\* write the same value, and one increment is lost.
C2_WritesReadPlusOne ==
    [][\A p \in Callers :
          Increment(p) => ViewsOf(table', ObjOf(inst[p])) = inst[p].views + 1]_vars

C2_LostUpdate ==
    \E o \in Objects :
       /\ AllIdle
       /\ done[o] = 2
       /\ ViewsOf(table, o) = 1
       /\ \A p \in Callers : ObjOf(inst[p]) = o /\ inst[p].views = 1

\* C3: at most one row per (content_type, object_id), and exactly one for
\* every object an increment has completed on.
C3_OneRowPerObject ==
    \A o \in Objects :
       /\ Cardinality(RowsOf(table, o)) <= 1
       /\ done[o] > 0 => Cardinality(RowsOf(table, o)) = 1

\* a caller is about to INSERT a row for an object that has got one meanwhile
C3_Witness ==
    \E p \in Callers :
       /\ pc[p] = "create_avf"
       /\ RowsOf(table, ObjOf(inst[p])) # {}
       /\ done[ObjOf(inst[p])] > 0

\* C4: a stored row keeps its first_view through every step.
C4_FirstViewFixed ==
    [][\A r \in table :
          \E r2 \in table' : r2.id = r.id /\ r2.first_view = r.first_view]_vars

C4_Witness ==
    \E r \in table : r.views = 2 /\ r.first_view = 0 /\ r.last_view = 1

\* C5: first_view <= last_view in every stored row.
C5_FirstBeforeLast == \A r \in table : r.first_view <= r.last_view

C5_Witness ==
    /\ \E r \in table : r.views = 0 /\ r.first_view < r.last_view
    /\ \E r \in table : r.views > 0 /\ r.first_view = r.last_view

\* C6: get_views_for returns the stored views, 0 when there is no row, and
\* leaves the table as it was.
C6_GetViewsForReadsOnly ==
    [][\A p \in Callers, o \in Objects :
          GetViewsFor(p, o) =>
             /\ table' = table
             /\ ret' = Returned(ViewsOf(table, o))
             /\ RowsOf(table, o) = {} => ret'.value = 0]_vars

\* get_views_for was the last call and returned 0: it was asked about the
\* object without a row, since the one stored row has views
C6_Witness ==
    /\ ret = Returned(0)
    /\ Cardinality(table) = 1
    /\ \A r \in table : r.views > 0

\* C7: without interleaving, a completed get_for_object(obj, create=True)
\* returns the one stored row of obj, and when obj already has a row (as on
\* a second call) that row is returned and the table is left as it was.
C7_GetOrCreateSameRow ==
    [][\A p \in Callers, o \in Objects :
          (\/ GetForObject(p, o, TRUE) /\ pc'[p] = "idle"
           \/ GetOrCreateInsert(p) /\ pc[p] = "create" /\ ObjOf(inst[p]) = o) =>
             /\ \E r \in RowsOf(table', o) :
                   /\ RowsOf(table', o) = {r}
                   /\ inst'[p].id = r.id
                   /\ ObjOf(inst'[p]) = o
             /\ RowsOf(table, o) # {} =>
                   /\ table' = table
                   /\ \E r \in RowsOf(table, o) : inst'[p].id = r.id]_vars

\* two get_for_object(obj, create=True) calls were made for one object and
\* both variables name the same row
C7_Witness ==
    /\ AllIdle
    /\ inst[1].id # 0
    /\ inst[1] = inst[2]
    /\ Cardinality(table) = 1
    /\ \A o \in Objects : done[o] = 0
    /\ ret = ReturnedInstance

----------------------------------------------------------------------------
(* Properties of the computed columns *)

\* a select_* call of any kind, with any arguments
SelectStep ==
    \/ SelectAge
    \/ \E rel \in RelativeTos : SelectRelviews(rel)
    \/ \E rel \in RelativeTos : SelectRelage(rel)
    \/ \E minimum \in Minimums : SelectNovelty(minimum)
    \/ SelectPopularity
    \/ \E rel \in RelativeTos : SelectRelpopularity(rel)
    \/ SelectRandom
    \/ \E kw \in BOOLEAN, rel \in RelativeTos : SelectOrdering(kw, rel)

\* C8: after select_relpopularity(reference_set) every row's relpopularity
\* is its popularity divided by the maximum popularity of the reference
\* set, lies in [0, 1], and is 1 for the row of maximum popularity when the
\* reference set is the collection itself.
C8_RelpopularityIsNormalised ==
    [][\A rel \in RelativeTos :
          (SelectRelpopularity(rel) /\ last'.exc = "none") =>
             LET ref == Reference(coll, rel)
                 maxpopularity == MaxPopularity(ref)
             IN  \A r \in Rows(coll') :
                    LET popularity == Eval(SQL_POPULARITY, r, now)
                        v == Eval(coll'.extra["relpopularity"], r, now)
                    IN  /\ v = Div(popularity, maxpopularity)
                        /\ ~IsNull(v) => Leq(Zero, v) /\ Leq(v, One)
                        /\ (ref = coll /\ popularity = maxpopularity
                              /\ ~IsNull(v)) => v = One]_vars

\* C9: on MySQL, select_ordering() with every weight and the offset left at
\* 0.0 returns a collection with an ordering column that is 0 in every row.
C9_DefaultOrderingIsZero ==
    [][(IsMySQL /\ SelectOrdering(FALSE, NoRelativeTo)) =>
          /\ last'.exc = "none"
          /\ "ordering" \in DOMAIN coll'.extra
          /\ \A r \in Rows(coll') : Eval(coll'.extra["ordering"], r, now) = Zero]_vars

\* C10: on a backend other than MySQL every select_* call ends with the
\* "This only works for MySQL." failure, having run no reference-set query
\* and leaving the collection as it was.
C10_BackendGuardFirst ==
    [][(~IsMySQL /\ SelectStep) =>
          /\ last'.exc = ASSERT_MYSQL
          /\ last'.queries = 0
          /\ coll' = coll]_vars

====
